---- MODULE Spec2Model ----
(***************************************************************************)
(* Lead Metrics Dashboard (streamlit_app.py).                              *)
(*                                                                         *)
(* The script is re-executed top to bottom on every user interaction.     *)
(* One action of the model is one interaction followed by the whole        *)
(* script run it triggers.  What survives between runs is the session:     *)
(* the values of the sidebar widgets and st.session_state.source_filter.   *)
(*                                                                         *)
(* Dates are day numbers counted from 2023-01-01 (day 0, a Sunday).        *)
(* Money is kept in cents so that sales * base_psl * factor is exact.      *)
(***************************************************************************)
EXTENDS Integers, Sequences, FiniteSets, TLC

\* ------------------------------------------------------------------------
\* Bounds of the model
\* ------------------------------------------------------------------------
\* The date pickers offer a few days around each anchor date.
MaxOffset == 0
\* The random stream is one of MaxSeed + 1 streams.
MaxSeed == 1

\* 2023-01-01 (Sunday, first of month), 2023-01-07 (Saturday),
\* 2023-02-01 (Wednesday, first of month)
AnchorDates == {0, 6, 31}
DateChoices == {a + o : a \in AnchorDates, o \in 0..MaxOffset}

\* ------------------------------------------------------------------------
\* Calendar (datetime / pandas offsets)
\* ------------------------------------------------------------------------
min_cal == 0

\* lengths of the months of 2023 and 2024
MonthLengths ==
  << 31, 28, 31, 30, 31, 30, 31, 31, 30, 31, 30, 31,
     31, 29, 31, 30, 31, 30, 31, 31, 30, 31, 30, 31 >>

RECURSIVE MonthStart(_)
\* day number of the first day of month m (1 = January 2023)
MonthStart(m) == IF m = 1 THEN 0 ELSE MonthStart(m - 1) + MonthLengths[m - 1]

\* date.weekday(): Monday = 0 ... Sunday = 6
weekday(d) == (d + 6) % 7

RECURSIVE DayOfMonthFrom(_, _)
DayOfMonthFrom(d, m) ==
  IF d < MonthLengths[m] THEN d + 1 ELSE DayOfMonthFrom(d - MonthLengths[m], m + 1)

\* date.day
DayOfMonth(d) == DayOfMonthFrom(d, 1)

Max(a, b) == IF a >= b THEN a ELSE b
Min(a, b) == IF a <= b THEN a ELSE b

\* int(x / y) of Python: truncation towards zero
TruncDiv(x, y) == IF x >= 0 THEN x \div y ELSE -((-x) \div y)

\* a function with domain 1..n as the list of its values
List(f) == f \o << >>

\* ------------------------------------------------------------------------
\* pd.date_range(start, end, freq)
\* ------------------------------------------------------------------------
\* variant: the end date left out of the daily range
DailyRangeOpen(start, end) ==
  List([k \in 1..Max(0, end - start) |-> start + (k - 1)])

\* freq='D': every day from start to end, both included
DailyRange(start, end) ==
  List([k \in 1..Max(0, end - start + 1) |-> start + (k - 1)])

\* variant: weeks anchored on Monday (W-MON)
WeeklyAnchorMonday(start) == start + ((7 - weekday(start)) % 7)

\* freq='W' is W-SUN: start is rolled forward to a Sunday, then steps of 7
WeeklyAnchor(start) == start + ((6 - weekday(start)) % 7)

WeeklyRange(start, end) ==
  LET first == WeeklyAnchor(start)
      n == IF first > end THEN 0 ELSE ((end - first) \div 7) + 1
  IN List([k \in 1..n |-> first + 7 * (k - 1)])

\* freq='MS': the month starts lying in [start, end]
MonthlyRange(start, end) ==
  LET InRange(m) == start <= MonthStart(m) /\ MonthStart(m) <= end
  IN List([k \in 1..Cardinality({m \in 1..Len(MonthLengths) : InRange(m)}) |->
             MonthStart(CHOOSE m \in 1..Len(MonthLengths) :
                          /\ InRange(m)
                          /\ Cardinality({x \in 1..m : InRange(x)}) = k)])

date_range(start, end, agg) ==
  IF agg = "Daily" THEN DailyRange(start, end)
  ELSE IF agg = "Weekly" THEN WeeklyRange(start, end)
  ELSE MonthlyRange(start, end)

\* ------------------------------------------------------------------------
\* generate_synthetic_data
\* ------------------------------------------------------------------------
\* variant: one name listed twice
sources_repeated ==
  << "Barrington", "Channel Edge", "Google", "Lucent", "O2C", "Other",
     "Policy Chat", "Ring 2", "Roku", "VOXR", "Youtube", "Youtube" >>

sources ==
  << "Barrington", "Channel Edge", "Google", "Lucent", "O2C", "Other",
     "Policy Chat", "Ring 2", "Roku", "VOXR", "Youtube", "Regal" >>

base_psl ==
  ("Barrington" :> 185) @@ ("Channel Edge" :> 165) @@ ("Google" :> 195) @@
  ("Lucent" :> 175) @@ ("O2C" :> 205) @@ ("Other" :> 155) @@
  ("Policy Chat" :> 190) @@ ("Ring 2" :> 170) @@ ("Roku" :> 180) @@
  ("VOXR" :> 160) @@ ("Youtube" :> 200) @@ ("Regal" :> 188)

\* Outcomes of the draws, as integers:
\*   trend + seasonal * 0.3 + random_shock, in tenths
WeightOutcomes == << -4, 1, 6, 13 >>
\*   int(np.random.normal(550, 100))
TotalLeadsOutcomes == << 550, -40, 90, 0, 431 >>
\*   np.random.uniform(0.8, 1.2), in hundredths
LeadNoiseOutcomes == << 80, 100, 120 >>
\*   np.random.normal(0, 0.03), in thousandths
ModifierOutcomes == << -200, -30, 0, 30, 200 >>
\*   np.random.uniform(0.95, 1.05), in hundredths
PslNoiseOutcomes == << 95, 100, 105 >>

\* The n-th number of the stream seeded with seed (np.random.seed, then the
\* n-th call of np.random.*).
Stream(seed, n) == ((seed + 1) * 7919 + n * 613 + (n \div 5) * 97 + (n \div 49) * 31) % 1009

Draw(seed, n, outcomes) == outcomes[(Stream(seed, n) % Len(outcomes)) + 1]

\* draws made per period: 12 shocks, total_leads, 3 per source
DrawsPerPeriod == Len(sources) + 1 + 3 * Len(sources)

RECURSIVE SumSeq(_)
SumSeq(s) == IF s = << >> THEN 0 ELSE Head(s) + SumSeq(Tail(s))

\* weights[source] before normalisation, in tenths: max(0.1, ...)
RawWeights(seed, i) ==
  List([j \in 1..Len(sources) |->
          Max(1, Draw(seed, i * DrawsPerPeriod + (j - 1), WeightOutcomes))])

\* variant: no floor of 5 leads
lead_count_unfloored(total_leads, weight, total_weight, noise) ==
  TruncDiv(total_leads * weight * noise, total_weight * 100)

\* lead_count = max(5, int(total_leads * weights[source] * uniform(0.8, 1.2)))
\* with weights[source] = weight / total_weight and noise in hundredths
lead_count(total_leads, weight, total_weight, noise) ==
  Max(5, TruncDiv(total_leads * weight * noise, total_weight * 100))

\* np.clip(0.27 + source_modifier, 0.15, 0.40), in thousandths
conversion_rate(source_modifier) == Max(150, Min(400, 270 + source_modifier))

\* int(lead_count * conversion_rate)
sales_count(leads, rate) == TruncDiv(leads * rate, 1000)

\* sales_count * source_psl, source_psl = base_psl[source] * noise; in cents
premium(sales, source, noise) == sales * base_psl[source] * noise

\* one record of data (lines 61-82); n is the position in the stream of the
\* first of the three draws made for it
Record(seed, period, source, total_leads, weight, total_weight, n) ==
  LET leads == lead_count(total_leads, weight, total_weight,
                          Draw(seed, n, LeadNoiseOutcomes))
      sales == sales_count(leads, conversion_rate(Draw(seed, n + 1, ModifierOutcomes)))
  IN [PERIOD |-> period,
      LEAD_SOURCE |-> source,
      LEAD_COUNT |-> leads,
      SOURCE_SALES |-> sales,
      SOURCE_PREMIUM |-> premium(sales, source, Draw(seed, n + 2, PslNoiseOutcomes))]

\* the records appended for periods[i + 1] (one pass of the outer loop)
PeriodRecords(seed, periods, i) ==
  LET base == i * DrawsPerPeriod
      w == RawWeights(seed, i)
      total_weight == SumSeq(w)
      total_leads == Draw(seed, base + Len(sources), TotalLeadsOutcomes)
  IN List([j \in 1..Len(sources) |->
             Record(seed, periods[i + 1], sources[j], total_leads, w[j],
                    total_weight, base + Len(sources) + 1 + 3 * (j - 1))])

RECURSIVE AppendPeriods(_, _, _)
\* the outer loop: data after the periods i, i+1, ... have been handled
AppendPeriods(seed, periods, i) ==
  IF i >= Len(periods) THEN << >>
  ELSE PeriodRecords(seed, periods, i) \o AppendPeriods(seed, periods, i + 1)

RecordColumns == {"PERIOD", "LEAD_SOURCE", "LEAD_COUNT", "SOURCE_SALES", "SOURCE_PREMIUM"}

\* pd.DataFrame(data): the columns come from the records, so a frame built
\* from no record has no column
DataFrame(data) ==
  [columns |-> IF data = << >> THEN {} ELSE RecordColumns, rows |-> data]

generate_synthetic_data(start, end, agg, seed) ==
  DataFrame(AppendPeriods(seed, date_range(start, end, agg), 0))

\* ------------------------------------------------------------------------
\* pandas arithmetic: Series / Series, fillna, boolean indexing, groupby
\* ------------------------------------------------------------------------
\* A float is a finite number (here: whole cents) or one of nan, inf.
Finite(v) == [kind |-> "finite", v |-> v]
NaN == [kind |-> "nan", v |-> 0]
Inf == [kind |-> "inf", v |-> 0]

\* element of Series / Series: a zero denominator gives nan (0/0) or inf,
\* never an exception
SeriesDiv(num, den) ==
  IF den = 0 THEN (IF num = 0 THEN NaN ELSE Inf) ELSE Finite(num \div den)

\* .fillna(0) replaces nan only
fillna0(f) == IF f.kind = "nan" THEN Finite(0) ELSE f

\* variant: the selection is not applied
KeepAllSources(df, selected) == df

\* df[df['LEAD_SOURCE'].isin(selected)].copy()
FilterSources(df, selected) ==
  [columns |-> df.columns,
   rows |-> SelectSeq(df.rows, LAMBDA r : r.LEAD_SOURCE \in selected)]

RECURSIVE SumRows(_, _, _)
\* sum of one column over the rows with index in idx
SumRows(rows, idx, col) ==
  IF idx = {} THEN 0
  ELSE LET k == CHOOSE m \in idx : \A h \in idx : m <= h
       IN rows[k][col] + SumRows(rows, idx \ {k}, col)

\* variant: agg 'first' in place of 'sum'
GroupOfFirst(rows, p) ==
  LET k == CHOOSE m \in 1..Len(rows) :
             /\ rows[m].PERIOD = p
             /\ \A h \in 1..(m - 1) : rows[h].PERIOD # p
  IN [PERIOD |-> p,
      LEAD_COUNT |-> rows[k].LEAD_COUNT,
      TOTAL_SALES |-> rows[k].SOURCE_SALES,
      TOTAL_PREMIUM |-> rows[k].SOURCE_PREMIUM]

\* groupby('PERIOD').agg({...: 'sum'}): one group per PERIOD value found in
\* the rows, holding the sums over the rows of that group
GroupOf(rows, p) ==
  LET idx == {k \in 1..Len(rows) : rows[k].PERIOD = p}
  IN [PERIOD |-> p,
      LEAD_COUNT |-> SumRows(rows, idx, "LEAD_COUNT"),
      TOTAL_SALES |-> SumRows(rows, idx, "SOURCE_SALES"),
      TOTAL_PREMIUM |-> SumRows(rows, idx, "SOURCE_PREMIUM")]

\* the groups come out sorted by PERIOD (groupby sorts its keys), then
\* reset_index and rename
GroupByPeriod(rows) ==
  LET keys == {rows[k].PERIOD : k \in 1..Len(rows)}
      Rank(p) == Cardinality({q \in keys : q <= p})
  IN List([g \in 1..Cardinality(keys) |->
             GroupOf(rows, CHOOSE p \in keys : Rank(p) = g)])

\* metrics_df['PSL'] = (TOTAL_PREMIUM / LEAD_COUNT).fillna(0)
WithPSL(groups) ==
  List([g \in 1..Len(groups) |->
          [PERIOD |-> groups[g].PERIOD,
           LEAD_COUNT |-> groups[g].LEAD_COUNT,
           TOTAL_SALES |-> groups[g].TOTAL_SALES,
           TOTAL_PREMIUM |-> groups[g].TOTAL_PREMIUM,
           PSL |-> fillna0(SeriesDiv(groups[g].TOTAL_PREMIUM, groups[g].LEAD_COUNT))]])

\* filtered_combined['SOURCE_PSL'] = (SOURCE_PREMIUM / LEAD_COUNT).fillna(0)
WithSourcePSL(rows) ==
  List([k \in 1..Len(rows) |->
          [PERIOD |-> rows[k].PERIOD,
           LEAD_SOURCE |-> rows[k].LEAD_SOURCE,
           LEAD_COUNT |-> rows[k].LEAD_COUNT,
           SOURCE_SALES |-> rows[k].SOURCE_SALES,
           SOURCE_PREMIUM |-> rows[k].SOURCE_PREMIUM,
           SOURCE_PSL |-> fillna0(SeriesDiv(rows[k].SOURCE_PREMIUM, rows[k].LEAD_COUNT))]])

RECURSIVE ColumnSum(_, _, _)
\* Series.sum() of one column of the totals table
ColumnSum(rows, col, k) ==
  IF k > Len(rows) THEN 0 ELSE rows[k][col] + ColumnSum(rows, col, k + 1)

\* variant: the card divides without looking at the lead count
TotalPSLUnguarded(metrics_rows) ==
  SeriesDiv(ColumnSum(metrics_rows, "TOTAL_PREMIUM", 1),
            ColumnSum(metrics_rows, "LEAD_COUNT", 1))

\* the "Total PSL" card: premium / leads if leads > 0 else 0
TotalPSL(metrics_rows) ==
  LET leads == ColumnSum(metrics_rows, "LEAD_COUNT", 1)
      prem == ColumnSum(metrics_rows, "TOTAL_PREMIUM", 1)
  IN IF leads > 0 THEN SeriesDiv(prem, leads) ELSE Finite(0)

\* ------------------------------------------------------------------------
\* The sidebar multiselect and the session
\* ------------------------------------------------------------------------
AllSources == {sources[j] : j \in 1..Len(sources)}

\* sorted(combined_df['LEAD_SOURCE'].unique().tolist()), as a set
SourcesOf(df) == {df.rows[k].LEAD_SOURCE : k \in 1..Len(df.rows)}

\* what the user may leave selected in the multiselect
SelectionChoices ==
  { {}, {"Google", "Roku"}, AllSources }

NoWidget == [exists |-> FALSE, default |-> {}, value |-> {}]
NoFrame == [columns |-> {}, rows |-> << >>]

\* st.sidebar.multiselect(..., default=..., key="source_multiselect").
\* The widget keeps the value the browser holds for it for as long as it
\* stays the same widget; default only seeds a widget that is new.  Which
\* arguments make it "the same widget" depends on the installed Streamlit:
\* the key alone (keyed), or the key together with the other arguments, of
\* which only default varies here.
multiselect(widget, default, keyed) ==
  IF widget.exists /\ (keyed \/ widget.default = default)
  THEN widget
  ELSE [exists |-> TRUE, default |-> default, value |-> default]

\* One execution of the script from line 116 on.  session_filter and widget
\* are the session as the run finds it; click is the button pressed.
RunScript(start, end, agg, sd, session_filter, widget, keyed, click) ==
  LET combined == generate_synthetic_data(start, end, agg, sd)
  IN IF "LEAD_SOURCE" \notin combined.columns
     THEN \* line 120 raises KeyError; nothing below it runs, and the
          \* widgets below it are not part of this run any more
          [status |-> "KeyError",
           combined_df |-> combined,
           source_filter |-> session_filter,
           widget |-> NoWidget,
           selected_sources |-> {},
           filtered_combined |-> NoFrame,
           metrics_df |-> NoFrame,
           total_psl |-> Finite(0)]
     ELSE LET options == SourcesOf(combined)
              f1 == IF click = "select_all" THEN options ELSE session_filter
              f2 == IF click = "clear_all" THEN {} ELSE f1
              f3 == f2 \cap options
              w == multiselect(widget, f3, keyed)
              selected == w.value
              filtered == FilterSources(combined, selected)
              groups == GroupByPeriod(filtered.rows)
              metrics == WithPSL(groups)
          IN [status |-> "done",
              combined_df |-> combined,
              source_filter |-> selected,
              widget |-> w,
              selected_sources |-> selected,
              filtered_combined |->
                [columns |-> filtered.columns \cup {"SOURCE_PSL"},
                 rows |-> WithSourcePSL(filtered.rows)],
              metrics_df |->
                [columns |-> {"PERIOD", "LEAD_COUNT", "TOTAL_SALES", "TOTAL_PREMIUM", "PSL"},
                 rows |-> metrics],
              total_psl |-> TotalPSL(metrics)]

\* ------------------------------------------------------------------------
\* State
\* ------------------------------------------------------------------------
VARIABLES
  start_date,        \* value of the "Start Date" input
  end_date,          \* value of the "End Date" input
  agg_level,         \* value of the "Aggregation Level" selectbox
  seed,              \* the random stream np.random.seed selects
  key_identity,      \* the multiselect is identified by its key alone
  source_filter,     \* st.session_state.source_filter
  widget,            \* browser-side state of the multiselect
  status,            \* how the last run ended: "done" or "KeyError"
  combined_df,       \* tables of the last run
  selected_sources,
  filtered_combined,
  metrics_df,
  total_psl,         \* the "Total PSL" card
  event,             \* what caused the last run: "input" (a date, the
                     \* level, a plain rerun), "edit", "select_all", "clear_all"
  prev_filter        \* source_filter as the last run found it

vars == << start_date, end_date, agg_level, seed, key_identity, source_filter,
           widget, status, combined_df, selected_sources, filtered_combined,
           metrics_df, total_psl, event, prev_filter >>

\* the effect of one run on everything the script writes
Ran(r) ==
  /\ source_filter' = r.source_filter
  /\ widget' = r.widget
  /\ status' = r.status
  /\ combined_df' = r.combined_df
  /\ selected_sources' = r.selected_sources
  /\ filtered_combined' = r.filtered_combined
  /\ metrics_df' = r.metrics_df
  /\ total_psl' = r.total_psl
  /\ prev_filter' = source_filter

\* The session after the first run has set source_filter to all the sources
\* (lines 122-123) and the user has brought the end date into the window.
Init ==
  /\ start_date = min_cal
  /\ end_date \in DateChoices
  /\ agg_level = "Weekly"
  /\ seed \in 0..MaxSeed
  /\ key_identity \in BOOLEAN
  /\ event = "input"
  /\ prev_filter = AllSources
  /\ LET r == RunScript(start_date, end_date, agg_level, seed, AllSources,
                        [exists |-> TRUE, default |-> AllSources, value |-> AllSources],
                        key_identity, "none")
     IN /\ source_filter = r.source_filter
        /\ widget = r.widget
        /\ status = r.status
        /\ combined_df = r.combined_df
        /\ selected_sources = r.selected_sources
        /\ filtered_combined = r.filtered_combined
        /\ metrics_df = r.metrics_df
        /\ total_psl = r.total_psl

\* ------------------------------------------------------------------------
\* Interactions; each one reruns the script
\* ------------------------------------------------------------------------
ChangeStartDate ==
  \E d \in DateChoices \ {start_date} :
    /\ start_date' = d
    /\ event' = "input"
    /\ LET r == RunScript(d, end_date, agg_level, seed, source_filter, widget, key_identity, "none") IN Ran(r)
    /\ UNCHANGED << end_date, agg_level, seed, key_identity >>

ChangeEndDate ==
  \E d \in DateChoices \ {end_date} :
    /\ end_date' = d
    /\ event' = "input"
    /\ LET r == RunScript(start_date, d, agg_level, seed, source_filter, widget, key_identity, "none") IN Ran(r)
    /\ UNCHANGED << start_date, agg_level, seed, key_identity >>

ChangeAggLevel ==
  \E a \in {"Daily", "Weekly", "Monthly"} \ {agg_level} :
    /\ agg_level' = a
    /\ event' = "input"
    /\ LET r == RunScript(start_date, end_date, a, seed, source_filter, widget, key_identity, "none") IN Ran(r)
    /\ UNCHANGED << start_date, end_date, seed, key_identity >>

\* the buttons and the multiselect are on the page only if the last run
\* got as far as creating them
EditMultiselect ==
  /\ status = "done"
  /\ \E sel \in SelectionChoices \ {widget.value} :
       /\ event' = "edit"
       /\ LET r == RunScript(start_date, end_date, agg_level, seed, source_filter,
                        [widget EXCEPT !.value = sel], key_identity, "none") IN Ran(r)
  /\ UNCHANGED << start_date, end_date, agg_level, seed, key_identity >>

ClickSelectAll ==
  /\ status = "done"
  /\ event' = "select_all"
  /\ LET r == RunScript(start_date, end_date, agg_level, seed, source_filter, widget, key_identity, "select_all") IN Ran(r)
  /\ UNCHANGED << start_date, end_date, agg_level, seed, key_identity >>

ClickClearAll ==
  /\ status = "done"
  /\ event' = "clear_all"
  /\ LET r == RunScript(start_date, end_date, agg_level, seed, source_filter, widget, key_identity, "clear_all") IN Ran(r)
  /\ UNCHANGED << start_date, end_date, agg_level, seed, key_identity >>

\* a rerun without any change (the "Rerun" command)
Rerun ==
  /\ event' = "input"
  /\ LET r == RunScript(start_date, end_date, agg_level, seed, source_filter, widget, key_identity, "none") IN Ran(r)
  /\ UNCHANGED << start_date, end_date, agg_level, seed, key_identity >>

Next ==
  \/ ChangeStartDate
  \/ ChangeEndDate
  \/ ChangeAggLevel
  \/ EditMultiselect
  \/ ClickSelectAll
  \/ ClickClearAll
  \/ Rerun

Spec == Init /\ [][Next]_vars

TypeOK ==
  /\ status \in {"done", "KeyError"}
  /\ event \in {"input", "edit", "select_all", "clear_all"}
  /\ source_filter \subseteq AllSources

\* ------------------------------------------------------------------------
\* Properties
\* ------------------------------------------------------------------------
RECURSIVE Total(_, _)
\* sum of the column col over a set of rows
Total(S, col) ==
  IF S = {} THEN 0
  ELSE LET r == CHOOSE x \in S : TRUE IN r[col] + Total(S \ {r}, col)

RowSet(rows) == {rows[k] : k \in 1..Len(rows)}
PeriodsOf(rows) == {rows[k].PERIOD : k \in 1..Len(rows)}

Reversed(rows) == List([k \in 1..Len(rows) |-> rows[Len(rows) + 1 - k]])

\* the rows at odd positions, then the rows at even positions
OddsThenEvens(rows) ==
  LET odd == (Len(rows) + 1) \div 2
  IN List([k \in 1..Len(rows) |->
             rows[IF k <= odd THEN 2 * k - 1 ELSE 2 * (k - odd)]])

Totals(rows) ==
  {[PERIOD |-> rows[g].PERIOD, LEAD_COUNT |-> rows[g].LEAD_COUNT,
    TOTAL_SALES |-> rows[g].TOTAL_SALES, TOTAL_PREMIUM |-> rows[g].TOTAL_PREMIUM] :
     g \in 1..Len(rows)}

NonNegative(f) == f.kind = "finite" /\ f.v >= 0

\* C2: PSL of every totals row, SOURCE_PSL of every filtered row and the
\* "Total PSL" card are numbers >= 0 (never nan or inf), and are 0 when the
\* lead count they divide by is 0.
C2_RatiosDefined ==
  status = "done" =>
    /\ \A g \in 1..Len(metrics_df.rows) :
         LET m == metrics_df.rows[g]
         IN NonNegative(m.PSL) /\ (m.LEAD_COUNT = 0 => m.PSL = Finite(0))
    /\ \A k \in 1..Len(filtered_combined.rows) :
         LET r == filtered_combined.rows[k]
         IN NonNegative(r.SOURCE_PSL) /\ (r.LEAD_COUNT = 0 => r.SOURCE_PSL = Finite(0))
    /\ NonNegative(total_psl)
    /\ (ColumnSum(metrics_df.rows, "LEAD_COUNT", 1) = 0 => total_psl = Finite(0))

\* the card of a run whose lead count is 0, over a table that has rows
C2_Witness ==
  /\ status = "done"
  /\ combined_df.rows # << >>
  /\ ColumnSum(metrics_df.rows, "LEAD_COUNT", 1) = 0
  /\ total_psl = Finite(0)

\* C3: a run whose selection is empty ends normally with no row in the
\* filtered table and no row in the totals table.
C3_EmptySelection ==
  (status # "KeyError" /\ selected_sources = {}) =>
    /\ status = "done"
    /\ filtered_combined.rows = << >>
    /\ metrics_df.rows = << >>

\* an empty selection over a table that has rows
C3_Witness ==
  /\ status = "done"
  /\ selected_sources = {}
  /\ Len(combined_df.rows) >= 2 * Len(sources)

\* C4: with the end date before the start date the run ends normally and
\* the combined, filtered and totals tables have no row.
C4_EmptyResult ==
  end_date < start_date =>
    /\ status = "done"
    /\ combined_df.rows = << >>
    /\ filtered_combined.rows = << >>
    /\ metrics_df.rows = << >>

\* C5: the generated table holds each pair (period, lead source), for the
\* generated periods and the 12 sources, exactly once, and nothing else.
C5_OnePerPair ==
  LET periods == date_range(start_date, end_date, agg_level)
      rows == combined_df.rows
      pairs == {<< rows[k].PERIOD, rows[k].LEAD_SOURCE >> : k \in 1..Len(rows)}
  IN /\ pairs = {periods[i] : i \in 1..Len(periods)} \X AllSources
     /\ Len(rows) = Cardinality(pairs)
     /\ Cardinality(AllSources) = 12

C5_Witness ==
  /\ status = "done"
  /\ Len(combined_df.rows) >= 2 * Len(sources)

\* C6: every PERIOD of the combined table lies in [start_date, end_date],
\* and under Daily every date of the range, both ends included, is there.
C6_RangeInclusive ==
  /\ \A p \in PeriodsOf(combined_df.rows) : start_date <= p /\ p <= end_date
  /\ agg_level = "Daily" => PeriodsOf(combined_df.rows) = start_date..end_date

C6_Witness ==
  /\ status = "done"
  /\ agg_level = "Daily"
  /\ start_date < end_date
  /\ {start_date, end_date} \subseteq PeriodsOf(combined_df.rows)

\* what C7 says of every granularity but Weekly
C7_DailyMonthly ==
  /\ agg_level = "Daily" =>
       PeriodsOf(combined_df.rows) = start_date..end_date
  /\ agg_level = "Monthly" =>
       \A p \in PeriodsOf(combined_df.rows) : DayOfMonth(p) = 1
  /\ (start_date = 0 /\ end_date = 6) =>
       /\ agg_level = "Daily" => Cardinality(PeriodsOf(combined_df.rows)) = 7
       /\ agg_level = "Weekly" => Cardinality(PeriodsOf(combined_df.rows)) <= 2

\* C7 as stated: under Daily PERIOD is the date itself, under Weekly the
\* Monday of its week, under Monthly the first day of its month;
\* 2023-01-01..2023-01-07 gives 7 periods under Daily, at most 2 under Weekly.
C7_Original ==
  /\ C7_DailyMonthly
  /\ agg_level = "Weekly" =>
       \A p \in PeriodsOf(combined_df.rows) : weekday(p) = 0

\* C7 amended: as C7, but under Weekly every PERIOD is a Sunday of the range
\* (the anchor day of the weekly frequency), and every Sunday of the range
\* is a PERIOD.
C7_PeriodStarts ==
  /\ C7_DailyMonthly
  /\ agg_level = "Weekly" =>
       PeriodsOf(combined_df.rows) = {d \in start_date..end_date : weekday(d) = 6}

\* weekly periods over a range that holds several Sundays
C7_Witness ==
  /\ status = "done"
  /\ agg_level = "Weekly"
  /\ Cardinality(PeriodsOf(combined_df.rows)) >= 2

\* C8: every generated record has 0 <= SOURCE_SALES <= LEAD_COUNT and
\* SOURCE_PREMIUM >= 0.
C8_RecordBounds ==
  \A k \in 1..Len(combined_df.rows) :
    LET r == combined_df.rows[k]
    IN /\ 0 <= r.SOURCE_SALES
       /\ r.SOURCE_SALES <= r.LEAD_COUNT
       /\ r.SOURCE_PREMIUM >= 0

\* a table with a record at the floor of 5 leads, one without any sale and
\* one with sales
C8_Witness ==
  /\ \E k \in 1..Len(combined_df.rows) : combined_df.rows[k].LEAD_COUNT = 5
  /\ \E k \in 1..Len(combined_df.rows) : combined_df.rows[k].SOURCE_SALES = 0
  /\ \E k \in 1..Len(combined_df.rows) :
       combined_df.rows[k].SOURCE_SALES > 0 /\ combined_df.rows[k].SOURCE_PREMIUM > 0

\* C9: a run caused by "Clear All" filters with the empty selection, a run
\* caused by "Select All" filters with all the available sources, and a run
\* caused by neither a click nor an edit of the multiselect filters with
\* the selection the session held before it.
C9_Shortcuts ==
  status = "done" =>
    /\ event = "clear_all" => selected_sources = {}
    /\ event = "select_all" => selected_sources = SourcesOf(combined_df)
    /\ event = "input" => selected_sources = prev_filter

\* C10: when a run is over, source_filter is the selection the run filtered
\* with and holds only lead sources of the run's combined table.
C10_FilterValid ==
  /\ status = "done" => source_filter = selected_sources
  /\ source_filter \subseteq SourcesOf(combined_df)
====
